---- MODULE Spec2Model ----
(***************************************************************************)
(* The trip-planning pipeline of langgraph-travel-planner: the LangGraph   *)
(* workflow of five stage functions (src/src/workflow.py), the stage       *)
(* functions themselves (src/src/agents.py), the two search connectors     *)
(* (src/src/tools.py) and the HTTP endpoint that runs the workflow         *)
(* (src/src/main.py).                                                      *)
(*                                                                         *)
(* The text-generation calls and the external search are collaborators:    *)
(* every stage action draws their answer from a set handed to it, so the   *)
(* same action is model-checked end to end under narrow answer sets (Spec) *)
(* and stage by stage under wide ones (SpecInfo, SpecFlight, ...).         *)
(***************************************************************************)
EXTENDS Integers, Sequences, FiniteSets, TLC

VARIABLES
    pc,                        \* the node the workflow runs next, "END", "crashed" or "responded"
    started,                   \* the stages entered so far, in order
    returned,                  \* the stages that returned a state update, in order
    user_info,                 \* state["user_info"]: a dict, key -> value
    flight_results,            \* state["flight_results"]
    hotel_results,             \* state["hotel_results"]
    destination_info_results,  \* state["destination_info_results"]
    final_itinerary,           \* state["final_itinerary"]
    notes,                     \* state["notes"]
    outcome,                   \* per stage, the path its last run took
    calls,                     \* the connector calls made, the external searches sent and
                               \* how many of them raised, the number of results the hotel
                               \* search found, the number of flight entries the flight
                               \* connector returned, the record the extraction returned,
                               \* and the hotels the augmentation call was made for
    assembly,                  \* the hotel lists of the compiler: prepared, augmented, passed on
    request,                   \* the request plan_trip_endpoint received (request.model_dump())
    response,                  \* what plan_trip_endpoint answered
    oracle,                    \* with two requests in flight: the answers the collaborators
                               \* give to the calls of this request (None otherwise)
    suspended                  \* with two requests in flight: the state, request, response
                               \* and oracle of the request that is not running now

vars == <<pc, started, returned, user_info, flight_results, hotel_results,
          destination_info_results, final_itinerary, notes, outcome, calls,
          assembly, request, response, oracle, suspended>>

(***************************************************************************)
(* Python values.  None, str, int and date strings are records with        *)
(* different fields, so that any two of them can be compared.              *)
(***************************************************************************)
None == [none |-> TRUE]

PyStr(s) == [s |-> s]

PyInt(i) == [i |-> i]

\* the string "YYYY-MM-DD" written with these three numbers
DateStr(y, m, d) == [y |-> y, m |-> m, d |-> d]

IsDateStr(v) == DOMAIN v = {"y", "m", "d"}

IsPyInt(v) == DOMAIN v = {"i"}

\* Python truthiness: None, "" and 0 are falsy
Truthy(v) == v # None /\ v # PyStr("") /\ v # PyInt(0)

\* dict.get(k) and dict.get(k, default)
Get(dict, k) == IF k \in DOMAIN dict THEN dict[k] ELSE None

GetDefault(dict, k, default) == IF k \in DOMAIN dict THEN dict[k] ELSE default

\* d = orig.copy(); d.update(new)
Update(orig, new) ==
    [k \in (DOMAIN orig) \cup (DOMAIN new) |-> IF k \in DOMAIN new THEN new[k] ELSE orig[k]]

Min(a, b) == IF a < b THEN a ELSE b

IsPrefix(s, t) == Len(s) <= Len(t) /\ SubSeq(t, 1, Len(s)) = s

(***************************************************************************)
(* Notes are strings; a note built from a format string keeps the values   *)
(* that were formatted into it.                                            *)
(***************************************************************************)
Note(msg) == [msg |-> msg]

\* what is a record: Exc(name) for a formatted exception, another note, a hotel, ...
NoteAbout(msg, what) == [msg |-> msg, about |-> what]

\* an exception, by the name of its class
Exc(name) == [exc |-> name]

\* a list
PyList(items) == [list |-> items]

\* a string given character by character
Text(chars) == [text |-> chars]

IsStr(v) == DOMAIN v \in {{"s"}, {"y", "m", "d"}, {"str_of"}, {"dollar"}, {"text"}}

\* str(v): a string stays what it is
str(v) == IF IsStr(v) THEN v ELSE [str_of |-> v]

(***************************************************************************)
(* datetime.strptime(s, '%Y-%m-%d') and the day difference of two dates    *)
(***************************************************************************)
IsLeap(y) == (y % 4 = 0) /\ ((y % 100 # 0) \/ (y % 400 = 0))

DaysInMonth(y, m) ==
    IF m = 2 THEN (IF IsLeap(y) THEN 29 ELSE 28)
    ELSE IF m \in {4, 6, 9, 11} THEN 30 ELSE 31

RECURSIVE DaysBeforeMonth(_, _)
DaysBeforeMonth(y, m) ==
    IF m <= 1 THEN 0 ELSE DaysBeforeMonth(y, m - 1) + DaysInMonth(y, m - 1)

DaysBeforeYear(y) ==
    ((y - 1) * 365) + ((y - 1) \div 4) - ((y - 1) \div 100) + ((y - 1) \div 400)

\* date.toordinal()
ToOrdinal(date) == DaysBeforeYear(date.y) + DaysBeforeMonth(date.y, date.m) + date.d

\* "ok" with the parsed date, "TypeError" for a non-string, "ValueError" for a
\* string that is no date
strptime(v) ==
    IF v = None \/ IsPyInt(v) THEN [res |-> "TypeError"]
    ELSE IF ~IsDateStr(v) THEN [res |-> "ValueError"]
    ELSE IF v.m \in 1..12 /\ v.d >= 1 /\ v.d <= DaysInMonth(v.y, v.m) /\ v.y \in 1..9999
         THEN [res |-> "ok", date |-> v]
         ELSE [res |-> "ValueError"]

calculated_num_days_no_plus_one(start_date, end_date) ==
    ToOrdinal(end_date) - ToOrdinal(start_date)

calculated_num_days(start_date, end_date) ==
    (ToOrdinal(end_date) - ToOrdinal(start_date)) + 1

(***************************************************************************)
(* Info Extraction stage (agents.py, info_extractor_agent_node)            *)
(*                                                                         *)
(* answer is what extractor_chain.invoke did: it raised a ValidationError  *)
(* or another exception, returned None, or returned an ExtractedTripInfo.  *)
(***************************************************************************)
\* The fields of ExtractedTripInfo that the stages read
ExtractedFields ==
    {"source_iata", "destination_iata", "hotel_city", "departure_date", "return_date",
     "num_days", "no_of_adults"}

\* lines 91-100: the day count of the extracted record after the inner try
\* ("raise" when a TypeError leaves the inner try for the outer handler)
recompute_num_days(extracted_data) ==
    LET start == strptime(extracted_data.departure_date)
        end == IF start.res = "ok" THEN strptime(extracted_data.return_date) ELSE start
    IN  IF start.res = "ok" /\ end.res = "ok"
        THEN [res |-> "ok",
              data |-> [extracted_data EXCEPT
                          !.num_days = PyInt(calculated_num_days(start.date, end.date))]]
        ELSE IF end.res = "ValueError"
        THEN [res |-> "ValueError", data |-> extracted_data]
        ELSE [res |-> "raise"]

merge_extracted_replacing(old_user_info, extracted_data) == extracted_data

\* lines 101-103: the copy of user_info, updated with the dump of the record
merge_extracted(old_user_info, extracted_data) == Update(old_user_info, extracted_data)

InfoNoteOk == Note("User information successfully extracted and standardized.")

InfoNoteDates ==
    Note("Could not calculate number of days from provided dates. Using LLM's or default.")

InfoNoteValidation ==
    Note("Failed to extract structured information due to Pydantic validation")

InfoNoteUnexpected(e) ==
    NoteAbout("An unexpected error occurred during Info Extractor Agent processing", e)

info_failed_returns_empty(old_user_info, old_notes, note, how) ==
    [user_info |-> [k \in {} |-> None], notes |-> Append(old_notes, note), outcome |-> how]

\* lines 112-127: both handlers return the incoming user_info and the notes
info_failed(old_user_info, old_notes, note, how) ==
    [user_info |-> old_user_info, notes |-> Append(old_notes, note), outcome |-> how]

info_extractor_result(old_user_info, old_notes, answer) ==
    IF answer.kind = "ValidationError"
    THEN info_failed(old_user_info, old_notes, InfoNoteValidation, "validation_error")
    ELSE IF answer.kind = "Exception"
    THEN info_failed(old_user_info, old_notes, InfoNoteUnexpected(Exc("Exception")), "unexpected_error")
    ELSE IF answer.kind = "None"
    \* line 89: extracted_data.model_dump() on None
    THEN info_failed(old_user_info, old_notes, InfoNoteUnexpected(Exc("AttributeError")),
                     "unexpected_error")
    ELSE LET days == recompute_num_days(answer.data)
         IN  IF days.res = "raise"
             THEN info_failed(old_user_info, old_notes, InfoNoteUnexpected(Exc("TypeError")),
                              "unexpected_error")
             ELSE [user_info |-> merge_extracted(old_user_info, days.data),
                   notes |-> (IF days.res = "ValueError"
                              THEN Append(old_notes, InfoNoteDates)
                              ELSE old_notes) \o <<InfoNoteOk>>,
                   outcome |-> IF days.res = "ValueError" THEN "extracted_dates_unparsed"
                               ELSE "extracted"]

(***************************************************************************)
(* Flight Search Connector (tools.py, fetch_flights)                       *)
(*                                                                         *)
(* answer is what the external search did: [kind |-> "raise"], or          *)
(* [kind |-> "results", results |-> the dict search.get_dict() returned].  *)
(* The result is [res |-> "ok", out |-> the returned dict] or              *)
(* [res |-> "raise"] when an exception leaves the function.                *)
(***************************************************************************)
FlightParams(source, destination, departure_date, return_date) ==
    [engine |-> "google_flights", departure_id |-> source, arrival_id |-> destination,
     outbound_date |-> departure_date, return_date |-> return_date]

\* lines 72-76: leg.get(airport, {}).get(key, default) raises on a null airport
LegRaises(leg) ==
    \E a \in {"departure_airport", "arrival_airport"} : a \in DOMAIN leg /\ leg[a] = None

AirportField(leg, airport, key, default) ==
    IF airport \in DOMAIN leg THEN GetDefault(leg[airport], key, default) ELSE default

\* lines 71-78
SimplifiedFlight(leg, best) ==
    [airline |-> GetDefault(leg, "airline", PyStr("Unknown")),
     departure_time |-> AirportField(leg, "departure_airport", "time", PyStr("N/A")),
     arrival_time |-> AirportField(leg, "arrival_airport", "time", PyStr("N/A")),
     departure_airport |-> AirportField(leg, "departure_airport", "name", PyStr("Unknown")),
     arrival_airport |-> AirportField(leg, "arrival_airport", "name", PyStr("Unknown")),
     price |-> str(GetDefault(best, "price", PyStr("N/A")))]

FlightNoteError == NoteAbout("Error fetching flights", Exc("Exception"))

FlightNoteNone == Note("No flight options found.")

FlightNoteNoLegs == Note("No detailed flight legs found within the best flight option.")

fetch_flights_uncaught(source, destination, departure_date, return_date, answer) ==
    LET base == [source |-> source, destination |-> destination]
    IN  IF answer.kind = "raise" THEN [res |-> "raise"]
        ELSE [res |-> "ok",
              out |-> base @@ [flights |-> <<>>, note |-> FlightNoteNone]]

\* lines 33-91
fetch_flights(source, destination, departure_date, return_date, answer) ==
    LET base == [source |-> source, destination |-> destination]
        empty(note) == [res |-> "ok", out |-> base @@ [flights |-> <<>>, note |-> note]]
    IN  IF answer.kind = "raise" THEN empty(FlightNoteError)
        ELSE LET best_flights == GetDefault(answer.results, "best_flights", <<>>)
             IN  IF best_flights = <<>> THEN empty(FlightNoteNone)
                 ELSE LET legs == GetDefault(best_flights[1], "flights", <<>>)
                      IN  IF legs = <<>> THEN empty(FlightNoteNoLegs)
                          ELSE IF \E i \in 1..Len(legs) : LegRaises(legs[i])
                          THEN [res |-> "raise"]
                          ELSE [res |-> "ok",
                                out |-> base @@
                                  [flights |-> [i \in 1..Len(legs) |->
                                                  SimplifiedFlight(legs[i], best_flights[1])]]]

(***************************************************************************)
(* Flight stage (agents.py, flight_agent_node)                             *)
(***************************************************************************)
FlightRequired == <<"source_iata", "destination_iata", "departure_date", "return_date">>

\* line 142 (and line 204 for the hotel stage)
missing_info_first_only(info, required) ==
    LET all_missing == SelectSeq(required, LAMBDA f : ~Truthy(Get(info, f)))
    IN  IF all_missing = <<>> THEN <<>> ELSE <<Head(all_missing)>>

missing_info(info, required) == SelectSeq(required, LAMBDA f : ~Truthy(Get(info, f)))

\* The typed Flight record: six strings
FlightValid(flight_data) ==
    \A k \in {"airline", "departure_time", "arrival_time", "departure_airport",
              "arrival_airport", "price"} : k \in DOMAIN flight_data /\ IsStr(flight_data[k])

FlightErrorNote(e) == NoteAbout("Error during Flight Agent processing", e)

MissingFlightParameters(fields) ==
    [msg |-> "Missing required flight parameters from user_info", fields |-> fields]

\* line 141
flight_parameters_present(info) ==
    \A i \in 1..Len(FlightRequired) : Truthy(Get(info, FlightRequired[i]))

flight_agent_result_absent_on_error(info, old_notes, answer) ==
    [flight_results |-> None,
     notes |-> Append(old_notes, FlightErrorNote(Exc("Exception"))),
     outcome |-> "tool_raised", called |-> FALSE, raw |-> 0]

\* lines 135-188; called tells whether the connector was invoked, raw how many
\* flight entries its output held
flight_agent_result(info, old_notes, answer) ==
    LET failed(e, how, called) ==
            [flight_results |-> [flights |-> <<>>, note |-> FlightErrorNote(e)],
             notes |-> Append(old_notes, FlightErrorNote(e)),
             outcome |-> how, called |-> called, raw |-> 0]
    IN  IF ~flight_parameters_present(info)
        THEN failed(MissingFlightParameters(missing_info(info, FlightRequired)),
                    "missing_parameters", FALSE)
        ELSE LET tool == fetch_flights(info.source_iata, info.destination_iata,
                                       info.departure_date, info.return_date, answer)
             IN  IF tool.res = "raise" THEN failed(Exc("AttributeError"), "tool_raised", TRUE)
                 ELSE LET tool_output == tool.out
                          flights == SelectSeq(tool_output.flights, FlightValid)
                          has_note == "note" \in DOMAIN tool_output
                      IN  [flight_results |->
                              [flights |-> flights,
                               note |-> GetDefault(tool_output, "note",
                                                   Note("Flight search completed."))],
                           notes |-> IF has_note THEN Append(old_notes, tool_output.note)
                                     ELSE old_notes,
                           outcome |-> IF has_note THEN "empty"
                                       ELSE IF Len(flights) < Len(tool_output.flights)
                                       THEN "dropped" ELSE "found",
                           called |-> TRUE, raw |-> Len(tool_output.flights)]

(***************************************************************************)
(* Hotel Search Connector (tools.py, hotel_search)                         *)
(*                                                                         *)
(* answer is what the external search did: [kind |-> "raise"], or          *)
(* [kind |-> "results", results |-> the dict search.get_dict() returned],  *)
(* a dict that may hold "properties" and "ads", each a list of dicts.      *)
(* found is the number of results the external search returned.            *)
(***************************************************************************)
\* line 153: the connector keeps the first two results
HotelCap == 2

\* lines 117-121
price_ranges ==
    [economy |-> [min_price |-> 50, max_price |-> 175],
     standard |-> [min_price |-> 176, max_price |-> 300],
     luxury |-> [min_price |-> 301, max_price |-> 10000]]

\* str.lower() on the budget strings of the model
lower(text) ==
    CASE text = "Economy" -> "economy"
      [] text = "STANDARD" -> "standard"
      [] text = "Luxury" -> "luxury"
      [] OTHER -> text

HotelParams_case_sensitive(place, check_in_date, check_out_date, number_of_adults, budget) ==
    LET params == [engine |-> "google_hotels", q |-> place, check_in_date |-> check_in_date,
                   check_out_date |-> check_out_date, adults |-> number_of_adults]
    IN  IF Truthy(budget) /\ budget.s \in DOMAIN price_ranges
        THEN params @@ price_ranges[budget.s]
        ELSE params

\* lines 106-130: the parameters of the external request
HotelParams(place, check_in_date, check_out_date, number_of_adults, budget) ==
    LET params == [engine |-> "google_hotels", q |-> place, check_in_date |-> check_in_date,
                   check_out_date |-> check_out_date, adults |-> number_of_adults]
    IN  IF Truthy(budget) /\ lower(budget.s) \in DOMAIN price_ranges
        THEN params @@ price_ranges[lower(budget.s)]
        ELSE params

\* a or b
Or(a, b) == IF Truthy(a) THEN a ELSE b

\* line 158: result.get("rate_per_night", {}).get("lowest") raises on a null rate
HotelResultRaises(result) == "rate_per_night" \in DOMAIN result /\ result.rate_per_night = None

\* lines 156-161
hotel_info(result) ==
    [hotel_name |-> Get(result, "name"),
     price_per_night |-> Or(IF "rate_per_night" \in DOMAIN result
                            THEN Get(result.rate_per_night, "lowest") ELSE None,
                            Get(result, "price")),
     rating |-> Or(Get(result, "overall_rating"), Get(result, "rating")),
     amenities |-> GetDefault(result, "amenities", PyList(<<>>))]

take_all(hotels_data_source) == hotels_data_source

\* lines 152-154: the loop stops at the third result
take_first_two(hotels_data_source) ==
    SubSeq(hotels_data_source, 1, Min(HotelCap, Len(hotels_data_source)))

HotelNoteError == NoteAbout("Error fetching hotels", Exc("Exception"))

HotelNoteNone == Note("No hotel options found.")

hotel_search(place, check_in_date, check_out_date, number_of_adults, budget, answer) ==
    IF answer.kind = "raise"
    THEN [res |-> "ok", found |-> 0,
          out |-> [place |-> place, hotels |-> <<>>, note |-> HotelNoteError]]
    ELSE LET properties == GetDefault(answer.results, "properties", <<>>)
             hotels_data_source == IF properties = <<>>
                                   THEN GetDefault(answer.results, "ads", <<>>)
                                   ELSE properties
             taken == take_first_two(hotels_data_source)
         IN  IF \E i \in 1..Len(taken) : HotelResultRaises(taken[i])
             THEN [res |-> "raise", found |-> Len(hotels_data_source)]
             ELSE IF taken = <<>>
             THEN [res |-> "ok", found |-> 0,
                   out |-> [place |-> place, hotels |-> <<>>, note |-> HotelNoteNone]]
             ELSE [res |-> "ok", found |-> Len(hotels_data_source),
                   out |-> [place |-> place,
                            hotels |-> [i \in 1..Len(taken) |-> hotel_info(taken[i])]]]

(***************************************************************************)
(* Hotel stage (agents.py, hotel_agent_node)                               *)
(***************************************************************************)
HotelRequired == <<"hotel_city", "departure_date", "return_date", "no_of_adults">>

HotelErrorNote(e) == NoteAbout("Hotel search failed", e)

MissingHotelParameters(fields) ==
    [msg |-> "Missing required hotel parameters from user_info", fields |-> fields]

adults_without_default(info) == Get(info, "no_of_adults")

\* line 200: user_info.get('no_of_adults', 1)
number_of_adults(info) == GetDefault(info, "no_of_adults", PyInt(1))

\* line 203
hotel_parameters_present(info) ==
    /\ Truthy(Get(info, "hotel_city"))
    /\ Truthy(Get(info, "departure_date"))
    /\ Truthy(Get(info, "return_date"))
    /\ Truthy(number_of_adults(info))

\* lines 196-229; called tells whether the connector was invoked
hotel_agent_result(info, old_notes, answer) ==
    LET failed(e, how, called, found) ==
            [hotel_results |-> [hotels |-> <<>>, note |-> HotelErrorNote(e)],
             notes |-> Append(old_notes, HotelErrorNote(e)),
             outcome |-> how, called |-> called, found |-> found]
    IN  IF ~hotel_parameters_present(info)
        THEN failed(MissingHotelParameters(missing_info(info, HotelRequired)),
                    "missing_parameters", FALSE, 0)
        ELSE LET tool == hotel_search(info.hotel_city, info.departure_date, info.return_date,
                                      number_of_adults(info), Get(info, "budget"), answer)
             IN  IF tool.res = "raise"
                 THEN failed(Exc("AttributeError"), "tool_raised", TRUE, tool.found)
                 ELSE [hotel_results |-> tool.out,
                       notes |-> IF "note" \in DOMAIN tool.out
                                 THEN Append(old_notes, tool.out.note) ELSE old_notes,
                       outcome |-> IF "note" \in DOMAIN tool.out THEN "empty" ELSE "found",
                       called |-> TRUE, found |-> tool.found]

(***************************************************************************)
(* Destination stage (agents.py, destination_agent_node)                   *)
(*                                                                         *)
(* answer is what info_agent_chain.invoke did: it raised a ValidationError *)
(* or another exception, returned None, or returned a                      *)
(* DestinationInformation.                                                 *)
(***************************************************************************)
DestinationNoteValidation ==
    Note("Failed to generate structured destination information due to Pydantic validation")

DestinationNoteUnexpected(e) ==
    NoteAbout("An unexpected error occurred during Destination Agent processing", e)

\* lines 292-296 and 300-304: current_notes is the list held in the state, so
\* state.get("notes", []) already ends with the message when it is added again
destination_failed(old_notes, note) ==
    [destination_info_results |-> None, notes |-> Append(old_notes, note) \o <<note>>,
     outcome |-> "failed"]

\* lines 281-304
destination_agent_result(old_notes, answer) ==
    IF answer.kind = "ValidationError"
    THEN destination_failed(old_notes, DestinationNoteValidation)
    ELSE IF answer.kind = "Exception"
    THEN destination_failed(old_notes, DestinationNoteUnexpected(Exc("Exception")))
    ELSE IF answer.kind = "None"
    THEN destination_failed(old_notes, DestinationNoteUnexpected(Exc("AttributeError")))
    ELSE [destination_info_results |-> answer.info, notes |-> old_notes, outcome |-> "generated"]

(***************************************************************************)
(* The augmentation text parser (agents.py, lines 384-394)                 *)
(*                                                                         *)
(* A line is a sequence of one-character strings.                          *)
(***************************************************************************)
LowerChar(c) ==
    CASE c = "A" -> "a" [] c = "B" -> "b" [] c = "C" -> "c" [] c = "D" -> "d"
      [] c = "E" -> "e" [] c = "F" -> "f" [] c = "G" -> "g" [] c = "H" -> "h"
      [] c = "I" -> "i" [] c = "J" -> "j" [] c = "K" -> "k" [] c = "L" -> "l"
      [] c = "M" -> "m" [] c = "N" -> "n" [] c = "O" -> "o" [] c = "P" -> "p"
      [] c = "Q" -> "q" [] c = "R" -> "r" [] c = "S" -> "s" [] c = "T" -> "t"
      [] c = "U" -> "u" [] c = "V" -> "v" [] c = "W" -> "w" [] c = "X" -> "x"
      [] c = "Y" -> "y" [] c = "Z" -> "z" [] OTHER -> c

\* the place of the first colon of the line, 0 when it has none
RECURSIVE ColonFrom(_, _)
ColonFrom(line, i) ==
    IF i > Len(line) THEN 0 ELSE IF line[i] = ":" THEN i ELSE ColonFrom(line, i + 1)

RECURSIVE lstrip(_)
lstrip(chars) ==
    IF chars # <<>> /\ Head(chars) = " " THEN lstrip(Tail(chars)) ELSE chars

RECURSIVE rstrip(_)
rstrip(chars) ==
    IF chars # <<>> /\ chars[Len(chars)] = " "
    THEN rstrip(SubSeq(chars, 1, Len(chars) - 1)) ELSE chars

strip(chars) == rstrip(lstrip(chars))

normalize_key_without_lower(chars) ==
    LET stripped == strip(chars)
    IN  [i \in 1..Len(stripped) |-> IF stripped[i] = " " THEN "_" ELSE stripped[i]]

\* key.strip().lower().replace(' ', '_')
normalize_key(chars) ==
    LET stripped == strip(chars)
    IN  [i \in 1..Len(stripped) |->
            IF LowerChar(stripped[i]) = " " THEN "_" ELSE LowerChar(stripped[i])]

line_key(line) == normalize_key(SubSeq(line, 1, ColonFrom(line, 1) - 1))

line_value(line) == strip(SubSeq(line, ColonFrom(line, 1) + 1, Len(line)))

\* augmented_details.get(key, prior): the last labelled line with this key wins
augmented_detail(lines, key, prior) ==
    LET hits == {i \in 1..Len(lines) : ColonFrom(lines[i], 1) > 0 /\ line_key(lines[i]) = key}
    IN  IF hits = {} THEN prior
        ELSE Text(line_value(lines[CHOOSE i \in hits : \A j \in hits : j <= i]))

KeyAddress == <<"a", "d", "d", "r", "e", "s", "s">>

KeyDescription == <<"d", "e", "s", "c", "r", "i", "p", "t", "i", "o", "n">>

KeyPerks == <<"p", "e", "r", "k", "s">>

\* lines 392-394
apply_augmentation(hotel_obj, lines) ==
    [hotel_obj EXCEPT
        !.address = augmented_detail(lines, KeyAddress, hotel_obj.address),
        !.description = augmented_detail(lines, KeyDescription, hotel_obj.description),
        !.perks = augmented_detail(lines, KeyPerks, hotel_obj.perks)]

(***************************************************************************)
(* Itinerary Compiler stage (agents.py, itinerary_agent_node)              *)
(***************************************************************************)
\* line 328: amenities=hotel_data.get("amenities", [])[:5]
AmenitiesCap == 5

\* lines 320-322: a numeric price becomes the string "$<price>"
price_value(hotel_data) ==
    LET price == GetDefault(hotel_data, "price_per_night", PyStr("N/A"))
    IN  IF IsPyInt(price) THEN [dollar |-> price.i] ELSE price

amenities_untruncated(hotel_data) == GetDefault(hotel_data, "amenities", PyList(<<>>)).list

\* line 328, for a hotel whose amenities are a list
amenities_truncated(hotel_data) ==
    LET amenities == GetDefault(hotel_data, "amenities", PyList(<<>>)).list
    IN  SubSeq(amenities, 1, Min(AmenitiesCap, Len(amenities)))

\* line 328 raises a TypeError when the amenities are None
PrepareRaises(hotel_data) == GetDefault(hotel_data, "amenities", PyList(<<>>)) = None

\* lines 324-332: the arguments of Hotel(...)
hotel_arguments(hotel_data) ==
    [hotel_name |-> GetDefault(hotel_data, "hotel_name", PyStr("N/A")),
     price_per_night |-> price_value(hotel_data),
     rating |-> Get(hotel_data, "rating"),
     amenities |-> amenities_truncated(hotel_data),
     address |-> Text(<<>>), description |-> Text(<<>>), perks |-> Text(<<>>)]

\* The typed Hotel record: name and nightly price are strings, the rating is
\* an optional number
HotelValid(hotel) ==
    /\ IsStr(hotel.hotel_name)
    /\ IsStr(hotel.price_per_night)
    /\ (hotel.rating = None \/ IsPyInt(hotel.rating))

PrepareNote(hotel_data) == NoteAbout("Error preparing hotel data for augmentation", hotel_data)

Constructible(hotel_data) == HotelValid(hotel_arguments(hotel_data))

\* lines 316-337: the first hotel whose preparation raises, 0 when none does
FirstRaising(hotels) ==
    IF \E i \in 1..Len(hotels) : PrepareRaises(hotels[i])
    THEN CHOOSE i \in 1..Len(hotels) :
            PrepareRaises(hotels[i]) /\ \A j \in 1..(i - 1) : ~PrepareRaises(hotels[j])
    ELSE 0

\* lines 316-337: the typed records built, the notes added for the hotels
\* that failed validation, and whether a TypeError left the loop
prepare_hotels(hotels) ==
    LET looked == IF FirstRaising(hotels) = 0 THEN hotels
                  ELSE SubSeq(hotels, 1, FirstRaising(hotels) - 1)
        kept == SelectSeq(looked, Constructible)
        dropped == SelectSeq(looked, LAMBDA h : ~Constructible(h))
    IN  [raised |-> FirstRaising(hotels) # 0,
         hotel_updated |-> [i \in 1..Len(kept) |-> hotel_arguments(kept[i])],
         prepare_notes |-> [i \in 1..Len(dropped) |-> PrepareNote(dropped[i])]]

AugmentationNote(hotel_obj) ==
    NoteAbout("Error during hotel augmentation for",
              [hotel_name |-> hotel_obj.hotel_name, e |-> Exc("Exception")])

augment_one_drop_failed(hotel_obj, aug) ==
    IF aug.kind = "raise"
    THEN [hotels |-> <<>>, notes |-> <<AugmentationNote(hotel_obj)>>,
          invoked |-> <<hotel_obj.hotel_name>>]
    ELSE [hotels |-> <<apply_augmentation(hotel_obj, aug.lines)>>, notes |-> <<>>,
          invoked |-> <<hotel_obj.hotel_name>>]

\* lines 376-400, for one hotel: what is appended to augmented_hotel_objects
\* and to the notes, and the hotel the augmentation call was made for
augment_one(hotel_obj, aug) ==
    IF aug.kind = "raise"
    THEN [hotels |-> <<hotel_obj>>, notes |-> <<AugmentationNote(hotel_obj)>>,
          invoked |-> <<hotel_obj.hotel_name>>]
    ELSE [hotels |-> <<apply_augmentation(hotel_obj, aug.lines)>>, notes |-> <<>>,
          invoked |-> <<hotel_obj.hotel_name>>]

\* a loop that gives up at the first augmentation call that raises
RECURSIVE augment_hotels_stops_at_failure(_, _)
augment_hotels_stops_at_failure(hotel_updated, augs) ==
    IF hotel_updated = <<>> THEN [hotels |-> <<>>, notes |-> <<>>, invoked |-> <<>>]
    ELSE LET first == augment_one(Head(hotel_updated), Head(augs))
             rest == IF Head(augs).kind = "raise"
                     THEN [hotels |-> Tail(hotel_updated), notes |-> <<>>, invoked |-> <<>>]
                     ELSE augment_hotels_stops_at_failure(Tail(hotel_updated), Tail(augs))
         IN  [hotels |-> first.hotels \o rest.hotels, notes |-> first.notes \o rest.notes,
              invoked |-> first.invoked \o rest.invoked]

\* lines 370-400: augs[i] is what augmentation_chain.invoke did for hotel i
RECURSIVE augment_hotels(_, _)
augment_hotels(hotel_updated, augs) ==
    IF hotel_updated = <<>> THEN [hotels |-> <<>>, notes |-> <<>>, invoked |-> <<>>]
    ELSE LET first == augment_one(Head(hotel_updated), Head(augs))
             rest == augment_hotels(Tail(hotel_updated), Tail(augs))
         IN  [hotels |-> first.hotels \o rest.hotels, notes |-> first.notes \o rest.notes,
              invoked |-> first.invoked \o rest.invoked]

\* lines 474-478: int(user_info.get('num_days', 0)) raises a TypeError on None
NumDaysRaises(info) == GetDefault(info, "num_days", PyInt(0)) = None

num_days_int(info) ==
    LET v == GetDefault(info, "num_days", PyInt(0))
    IN  IF IsPyInt(v) THEN v.i ELSE 0

(***************************************************************************)
(* Itinerary assembly and the final document (agents.py, lines 407-521)    *)
(*                                                                         *)
(* answer is what structured_itinerary_chain.invoke did: it raised a       *)
(* ValidationError or another exception, or returned a FullTravelItinerary *)
(* that the text generation built from the inputs it was given.            *)
(***************************************************************************)
\* The activities of day d when the activities are dealt out over n days
SpreadDay(activities, n, d) ==
    LET count == IF d > Len(activities) THEN 0 ELSE ((Len(activities) - d) \div n) + 1
    IN  [k \in 1..count |-> activities[d + ((k - 1) * n)]]

\* The day list the text generation returns: "spread" deals the activities
\* out over the days, "first_day" puts them all on day 1
ItineraryDays(plan, n, activities) ==
    [d \in 1..n |->
        [day |-> d,
         activities |-> IF plan = "spread" THEN SpreadDay(activities, n, d)
                        ELSE IF d = 1 THEN activities ELSE <<>>]]

\* The FullTravelItinerary (as model_dump() gives it) of an answer
AssembledDocument(inputs, answer) ==
    [flight |-> IF answer.echo THEN inputs.flights_json ELSE <<>>,
     hotels |-> IF answer.echo THEN inputs.augmented_hotel_details_objects_json ELSE <<>>,
     itinerary |-> ItineraryDays(answer.plan, IF inputs.num_days > 0 THEN inputs.num_days ELSE 0,
                                 inputs.activities_list_json),
     travel_options |-> inputs.travel_options_json,
     note |-> inputs.research_details_json,
     notes_and_warnings |-> IF answer.echo THEN inputs.notes ELSE <<>>]

\* The trip-parameter snapshot of the final schema: every trip parameter set
SummaryValid(summary) == \A k \in ExtractedFields : k \in DOMAIN summary /\ summary[k] # None

\* FinalFullTravelItinerary(**data): every part of the document but the
\* disclaimer is required
FinalRequired ==
    {"user_request_summary", "flight", "hotels", "itinerary", "travel_options", "note",
     "notes_and_warnings"}

FinalFullTravelItinerary(data) ==
    /\ FinalRequired \subseteq DOMAIN data
    /\ SummaryValid(data.user_request_summary)

ItineraryNoteValidation == Note("ValidationError during structured itinerary compilation")

ItineraryNoteUnexpected ==
    NoteAbout("An unexpected error occurred during structured itinerary compilation",
              Exc("Exception"))

FinalNoteValidation == Note("Final Pydantic Validation Error for Full Travel Itinerary")

FinalDocNoteValidation == Note("Validation failed for final itinerary")

DisclaimerAssembly == PyStr("Partial itinerary due to internal error.")

DisclaimerFinal == PyStr("Partial itinerary generated due to final validation error.")

degraded_document_without_notes(current_notes) ==
    [notes_and_warnings |-> <<current_notes[Len(current_notes)]>>,
     disclaimer |-> DisclaimerAssembly]

\* lines 496 and 501
degraded_document(current_notes) ==
    [notes_and_warnings |-> current_notes, disclaimer |-> DisclaimerAssembly]

unwrapped_document_without_disclaimer(final_itinerary_data) ==
    [final_itinerary_data EXCEPT !.notes_and_warnings = Append(@, FinalDocNoteValidation)]

\* lines 512-521: the assembled data, the validation error added to its
\* notes, and the disclaimer
unwrapped_document(final_itinerary_data) ==
    [final_itinerary_data EXCEPT !.notes_and_warnings = Append(@, FinalDocNoteValidation)]
    @@ [disclaimer |-> DisclaimerFinal]

\* lines 407-521, after the hotel loops.  prepared is what lines 316-337
\* built and augmented what lines 339-404 made of it; notes_prepared is the
\* list of notes after the first loop.
compile_itinerary(info, flights, destination, notes_prepared, prepared, augmented, augs, answer) ==
    LET current_notes == notes_prepared \o augmented.notes
        inputs == [user_info |-> info,
                   flights_json |-> IF flights # None THEN GetDefault(flights, "flights", <<>>)
                                    ELSE <<>>,
                   augmented_hotel_details_objects_json |-> augmented.hotels,
                   activities_list_json |-> IF destination # None THEN destination.activities
                                            ELSE <<>>,
                   travel_options_json |-> IF destination # None
                                           THEN destination.local_travel_options ELSE <<>>,
                   research_details_json |-> IF destination # None
                                             THEN destination.destination_research ELSE <<>>,
                   num_days |-> num_days_int(info),
                   notes |-> current_notes]
        invoked == [stage |-> "invoked", prepared |-> prepared.hotel_updated,
                    raised |-> [i \in 1..Len(prepared.hotel_updated) |-> augs[i].kind = "raise"],
                    texts |-> [i \in 1..Len(prepared.hotel_updated) |->
                                 IF augs[i].kind = "raise" THEN <<>> ELSE augs[i].lines],
                    hotels |-> augmented.hotels, notes |-> current_notes]
    IN  IF prepared.raised
        THEN [raised |-> TRUE, notes |-> notes_prepared, outcome |-> "crashed",
              assembly |-> [stage |-> "crashed"], augmentation |-> <<>>]
        ELSE IF NumDaysRaises(info)
        THEN [raised |-> TRUE, notes |-> current_notes, outcome |-> "crashed",
              assembly |-> [stage |-> "crashed"], augmentation |-> augmented.invoked]
        ELSE IF answer.kind \in {"ValidationError", "Exception"}
        THEN LET error_msg == IF answer.kind = "ValidationError" THEN ItineraryNoteValidation
                              ELSE ItineraryNoteUnexpected
             IN  [raised |-> FALSE, notes |-> Append(current_notes, error_msg),
                  outcome |-> "assembly_failed", assembly |-> invoked,
                  augmentation |-> augmented.invoked,
                  update |-> [final_itinerary |->
                                degraded_document(Append(current_notes, error_msg))]]
        ELSE LET final_itinerary_data ==
                     AssembledDocument(inputs, answer) @@ [user_request_summary |-> info]
             IN  IF FinalFullTravelItinerary(final_itinerary_data)
                 THEN [raised |-> FALSE, notes |-> current_notes, outcome |-> "compiled",
                       assembly |-> invoked, augmentation |-> augmented.invoked,
                       update |-> [final_itinerary |->
                                     final_itinerary_data @@ [disclaimer |-> None]]]
                 ELSE [raised |-> FALSE, notes |-> Append(current_notes, FinalNoteValidation),
                       outcome |-> "final_validation_failed", assembly |-> invoked,
                       augmentation |-> augmented.invoked,
                       update |-> [final_itinerary |-> unwrapped_document(final_itinerary_data)]]

\* lines 307-521.  augs[i] is what the augmentation call did for the i-th
\* prepared hotel.  notes is the list of the state, which the appends of the
\* stage change in place; update is the dict the stage returns, absent when
\* an exception leaves the stage; augmentation is the list of the hotels the
\* augmentation call was made for.
itinerary_agent_result(info, flights, hotels, destination, old_notes, augs, answer) ==
    LET prepared == prepare_hotels(IF hotels # None THEN GetDefault(hotels, "hotels", <<>>)
                                   ELSE <<>>)
    IN  compile_itinerary(info, flights, destination, old_notes \o prepared.prepare_notes,
                          prepared, augment_hotels(prepared.hotel_updated, augs), augs, answer)

(***************************************************************************)
(* The workflow (workflow.py) and the endpoint (main.py)                   *)
(***************************************************************************)
Nodes ==
    {"info_extractor", "flight_search", "hotel_search", "destination_info",
     "itinerary_compiler"}

\* workflow.py, line 22
EntryPoint == "info_extractor"

\* workflow.py, lines 24-28
Edges ==
    {<<"info_extractor", "flight_search">>, <<"flight_search", "hotel_search">>,
     <<"hotel_search", "destination_info">>, <<"destination_info", "itinerary_compiler">>,
     <<"itinerary_compiler", "END">>}

next_node_skips_hotels(node) ==
    IF node = "flight_search" THEN "destination_info"
    ELSE CHOOSE m \in Nodes \cup {"END"} : <<node, m>> \in Edges

\* the node the compiled graph runs after node
next_node(node) == CHOOSE m \in Nodes \cup {"END"} : <<node, m>> \in Edges

\* A node ran and returned its update: the graph moves along its edge
Returned(node) ==
    /\ started' = Append(started, node)
    /\ returned' = Append(returned, node)
    /\ pc' = next_node(node)

\* An exception left the node: ainvoke raises it into plan_trip_endpoint
Raised(node) ==
    /\ started' = Append(started, node)
    /\ returned' = returned
    /\ pc' = "crashed"

\* main.py, lines 49-56: the state plan_trip_endpoint hands to the workflow
Init(requests) ==
    /\ pc = EntryPoint
    /\ started = <<>>
    /\ returned = <<>>
    /\ request \in requests
    /\ user_info = request
    /\ flight_results = None
    /\ hotel_results = None
    /\ destination_info_results = None
    /\ final_itinerary = None
    /\ notes = <<>>
    /\ outcome = [n \in Nodes |-> "not_run"]
    /\ calls = [fetch_flights |-> 0, hotel_search |-> 0, searches |-> <<>>, found |-> 0,
                raw_flights |-> 0, search_raised |-> 0,
                extracted |-> None, augmentation |-> <<>>]
    /\ assembly = [stage |-> "none"]
    /\ response = [status_code |-> 0]
    /\ oracle = None
    /\ suspended = None

info_extractor_agent_node(answers) ==
    /\ pc = "info_extractor"
    /\ \E answer \in answers :
          LET r == info_extractor_result(user_info, notes, answer)
          IN  /\ user_info' = r.user_info
              /\ notes' = r.notes
              /\ outcome' = [outcome EXCEPT !["info_extractor"] = r.outcome]
              /\ calls' = [calls EXCEPT !.extracted = IF answer.kind = "ok" THEN answer.data
                                                      ELSE None]
    /\ Returned("info_extractor")
    /\ UNCHANGED <<flight_results, hotel_results, destination_info_results, final_itinerary,
                   assembly, request, response>>
    /\ UNCHANGED <<oracle, suspended>>

flight_agent_node_normalizes_user_info(answers) ==
    /\ pc = "flight_search"
    /\ \E answer \in answers :
          LET r == flight_agent_result(user_info, notes, answer)
          IN  /\ flight_results' = r.flight_results
              /\ notes' = r.notes
              /\ outcome' = [outcome EXCEPT !["flight_search"] = r.outcome]
              /\ calls' = IF r.called THEN [calls EXCEPT !.fetch_flights = @ + 1] ELSE calls
    /\ user_info' = Update(user_info, [source |-> Get(user_info, "source_iata")])
    /\ Returned("flight_search")
    /\ UNCHANGED <<hotel_results, destination_info_results, final_itinerary,
                   assembly, request, response>>
    /\ UNCHANGED <<oracle, suspended>>

flight_agent_node(answers) ==
    /\ pc = "flight_search"
    /\ \E answer \in answers :
          LET r == flight_agent_result(user_info, notes, answer)
          IN  /\ flight_results' = r.flight_results
              /\ notes' = r.notes
              /\ outcome' = [outcome EXCEPT !["flight_search"] = r.outcome]
              /\ calls' = IF r.called
                          THEN [calls EXCEPT
                                  !.fetch_flights = @ + 1,
                                  !.raw_flights = r.raw,
                                  !.search_raised = @ + (IF answer.kind = "raise" THEN 1 ELSE 0),
                                  !.searches = Append(@, FlightParams(user_info.source_iata,
                                                  user_info.destination_iata,
                                                  user_info.departure_date,
                                                  user_info.return_date))]
                          ELSE calls
    /\ Returned("flight_search")
    /\ UNCHANGED <<user_info, hotel_results, destination_info_results, final_itinerary,
                   assembly, request, response>>
    /\ UNCHANGED <<oracle, suspended>>

hotel_agent_node(answers) ==
    /\ pc = "hotel_search"
    /\ \E answer \in answers :
          LET r == hotel_agent_result(user_info, notes, answer)
          IN  /\ hotel_results' = r.hotel_results
              /\ notes' = r.notes
              /\ outcome' = [outcome EXCEPT !["hotel_search"] = r.outcome]
              /\ calls' = IF r.called
                          THEN [calls EXCEPT
                                  !.hotel_search = @ + 1,
                                  !.found = r.found,
                                  !.search_raised = @ + (IF answer.kind = "raise" THEN 1 ELSE 0),
                                  !.searches = Append(@, HotelParams(user_info.hotel_city,
                                                  user_info.departure_date,
                                                  user_info.return_date,
                                                  number_of_adults(user_info),
                                                  Get(user_info, "budget")))]
                          ELSE calls
    /\ Returned("hotel_search")
    /\ UNCHANGED <<user_info, flight_results, destination_info_results, final_itinerary,
                   assembly, request, response>>
    /\ UNCHANGED <<oracle, suspended>>

\* lines 277-278 read flight_info.get and hotel_info.get outside the try
destination_agent_node(answers) ==
    /\ pc = "destination_info"
    /\ IF flight_results = None \/ hotel_results = None
       THEN /\ Raised("destination_info")
            /\ outcome' = [outcome EXCEPT !["destination_info"] = "crashed"]
            /\ UNCHANGED <<destination_info_results, notes>>
       ELSE /\ \E answer \in answers :
                  LET r == destination_agent_result(notes, answer)
                  IN  /\ destination_info_results' = r.destination_info_results
                      /\ notes' = r.notes
                      /\ outcome' = [outcome EXCEPT !["destination_info"] = r.outcome]
            /\ Returned("destination_info")
    /\ UNCHANGED <<user_info, flight_results, hotel_results, final_itinerary, calls,
                   assembly, request, response>>
    /\ UNCHANGED <<oracle, suspended>>

itinerary_agent_node(augmentations, answers) ==
    /\ pc = "itinerary_compiler"
    /\ LET hotels == IF hotel_results # None THEN GetDefault(hotel_results, "hotels", <<>>)
                     ELSE <<>>
           n == Len(prepare_hotels(hotels).hotel_updated)
       IN  \E augs \in [1..n -> augmentations], answer \in answers :
              LET r == itinerary_agent_result(user_info, flight_results, hotel_results,
                                              destination_info_results, notes, augs, answer)
              IN  /\ notes' = r.notes
                  /\ outcome' = [outcome EXCEPT !["itinerary_compiler"] = r.outcome]
                  /\ assembly' = r.assembly
                  /\ calls' = [calls EXCEPT !.augmentation = r.augmentation]
                  /\ IF r.raised
                     THEN Raised("itinerary_compiler") /\ final_itinerary' = final_itinerary
                     ELSE Returned("itinerary_compiler")
                          /\ final_itinerary' = r.update.final_itinerary
    /\ UNCHANGED <<user_info, flight_results, hotel_results, destination_info_results,
                   request, response>>
    /\ UNCHANGED <<oracle, suspended>>

\* main.py, lines 58-71: what the endpoint answers once ainvoke is over
plan_trip_response(state_pc, itinerary) ==
    IF state_pc = "crashed"
    THEN [status_code |-> 500, detail |-> "An internal error occurred during trip planning"]
    ELSE IF itinerary = None
    THEN [status_code |-> 500, detail |-> "Failed to generate complete itinerary."]
    ELSE IF FinalFullTravelItinerary(itinerary)
    THEN [status_code |-> 200, body |-> itinerary]
    ELSE [status_code |-> 500, detail |-> "An internal error occurred during trip planning"]

plan_trip_endpoint ==
    /\ pc \in {"END", "crashed"}
    /\ response' = plan_trip_response(pc, final_itinerary)
    /\ pc' = "responded"
    /\ UNCHANGED <<started, returned, user_info, flight_results, hotel_results,
                   destination_info_results, final_itinerary, notes, outcome, calls, assembly,
                   request>>
    /\ UNCHANGED <<oracle, suspended>>

(***************************************************************************)
(* The collaborators' answers and the requests, from bounded sets          *)
(***************************************************************************)
\* the model's day count is None or 0..MaxModelDays
MaxModelDays == 3

\* the external flight search returns up to MaxLegs legs
MaxLegs == 2

\* the external hotel search returns up to MaxProperties properties
MaxProperties == 3

\* a property has up to MaxAmenities amenities
MaxAmenities == 6

\* the destination information holds up to MaxActivities activities
MaxActivities == 3

\* all dicts over a subset of keys, each key with a value of Values
Dicts(keys, Values) == UNION {[present -> Values] : present \in SUBSET keys}

\* all sequences of length 0..n over a set
SeqsUpTo(n, S) == UNION {[1..k -> S] : k \in 0..n}

Jun1 == DateStr(2025, 6, 1)

Jun3 == DateStr(2025, 6, 3)

\* A request that names every trip parameter
FullRequest ==
    [source_iata |-> PyStr("JFK"), destination_iata |-> PyStr("SYD"),
     hotel_city |-> PyStr("Sydney"), departure_date |-> Jun1, return_date |-> Jun3,
     no_of_adults |-> PyInt(2), budget |-> PyStr("economy")]

\* A request in the words of the user: no codes, no hotel city, no destination
RawRequest ==
    [source |-> PyStr("USA"), departure_date |-> Jun1, return_date |-> Jun3,
     no_of_adults |-> PyInt(2)]

Requests == {FullRequest, RawRequest}

\* What the text generation extracted from a request
Extracted(departure_date, return_date, num_days) ==
    [source_iata |-> PyStr("JFK"), destination_iata |-> PyStr("SYD"),
     hotel_city |-> PyStr("Sydney"), departure_date |-> departure_date,
     return_date |-> return_date, num_days |-> num_days, no_of_adults |-> PyInt(2)]

ExtractorFailures == {[kind |-> "ValidationError"], [kind |-> "Exception"], [kind |-> "None"]}

ExtractorAnswers ==
    ExtractorFailures \cup
    {[kind |-> "ok", data |-> Extracted(Jun1, Jun3, PyInt(2))],
     [kind |-> "ok", data |-> Extracted(Jun1, DateStr(2025, 6, 31), PyInt(2))]}

\* date strings: dates around the ends of February and of the year, dates
\* that do not exist, the empty string, and no date at all
Dates ==
    {DateStr(2024, 2, 28), DateStr(2024, 3, 1), DateStr(2024, 12, 31), DateStr(2025, 1, 1),
     DateStr(2025, 2, 29), DateStr(2025, 13, 1), PyStr(""), None}

ModelDays == {None} \cup {PyInt(n) : n \in 0..MaxModelDays}

WideExtractorAnswers ==
    ExtractorFailures \cup
    {[kind |-> "ok", data |-> Extracted(d, r, n)] : d \in Dates, r \in Dates, n \in ModelDays}

\* requests in which any of the fields the flight and hotel stages require is
\* absent, None, empty or set
FieldValues == {None, PyStr(""), PyStr("set")}

WideFlightRequests ==
    {fields @@ [hotel_city |-> PyStr("Sydney"), no_of_adults |-> PyInt(2)] :
        fields \in Dicts({"source_iata", "destination_iata", "departure_date", "return_date"},
                         FieldValues)}

Budgets ==
    {PyStr("economy"), PyStr("Economy"), PyStr("STANDARD"), PyStr("luxury"), PyStr("deluxe"),
     PyStr("")}

WideHotelRequests ==
    {fields @@ adults @@ budget :
        fields \in Dicts({"hotel_city", "departure_date", "return_date"}, FieldValues),
        adults \in Dicts({"no_of_adults"}, {None, PyInt(0), PyInt(2)}),
        budget \in Dicts({"budget"}, {PyStr("luxury")})}

BudgetRequests == {[FullRequest EXCEPT !.budget = b] : b \in Budgets}

\* legs of the best flight option: complete, without an airline, with a null
\* airline, with a null airport
Airport(name) == [name |-> PyStr(name), time |-> PyStr("2025-06-01 08:00")]

Legs ==
    {[airline |-> PyStr("Qantas"), departure_airport |-> Airport("JFK"),
      arrival_airport |-> Airport("SYD")],
     [departure_airport |-> Airport("JFK")],
     [airline |-> None, departure_airport |-> Airport("JFK"),
      arrival_airport |-> Airport("SYD")],
     [airline |-> PyStr("Qantas"), departure_airport |-> None]}

FlightSearchAnswers(legs) ==
    {[kind |-> "raise"], [kind |-> "results", results |-> [search_metadata |-> "ok"]],
     [kind |-> "results", results |-> [best_flights |-> <<[price |-> PyInt(900)]>>]]}
    \cup {[kind |-> "results",
           results |-> [best_flights |-> <<[flights |-> l, price |-> PyInt(900)]>>]] :
             l \in SeqsUpTo(MaxLegs, legs) \ {<<>>}}

NarrowFlightAnswers ==
    {a \in FlightSearchAnswers(Legs) :
        a.kind = "results" /\ "best_flights" \in DOMAIN a.results
        => ("flights" \in DOMAIN a.results.best_flights[1]
            => Len(a.results.best_flights[1].flights) = 1)}

\* properties of the external hotel search, by kind
HotelNames == <<"Hotel A", "Hotel B", "Hotel C", "Hotel D", "Hotel E">>

Amenities(n) == PyList([i \in 1..n |-> [amenity |-> i]])

Property(name, kind) ==
    CASE kind = "plain" ->
            [name |-> PyStr(name), rate_per_night |-> [lowest |-> PyStr("$120")],
             overall_rating |-> PyInt(4), amenities |-> Amenities(2)]
      [] kind = "many" ->
            [name |-> PyStr(name), price |-> PyInt(150), rating |-> PyInt(5),
             amenities |-> Amenities(MaxAmenities)]
      [] kind = "null_amenities" ->
            [name |-> PyStr(name), price |-> PyStr("$90"), amenities |-> None]
      [] kind = "no_name" ->
            [rate_per_night |-> [lowest |-> PyStr("$75")], amenities |-> Amenities(1)]
      [] kind = "bare" -> [name |-> PyStr(name)]
      [] kind = "null_rate" -> [name |-> PyStr(name), rate_per_night |-> None]

PropertyKinds == {"plain", "many", "null_amenities", "no_name", "bare", "null_rate"}

PropertyLists(n, kinds) ==
    {[i \in 1..Len(ks) |-> Property(HotelNames[i], ks[i])] : ks \in SeqsUpTo(n, kinds)}

HotelSearchAnswers(n, kinds) ==
    {[kind |-> "raise"], [kind |-> "results", results |-> [search_metadata |-> "ok"]],
     [kind |-> "results", results |-> [ads |-> <<Property("Ad Hotel", "plain")>>]]}
    \cup {[kind |-> "results", results |-> [properties |-> l]] : l \in PropertyLists(n, kinds)}

NarrowHotelAnswers ==
    {[kind |-> "raise"],
     [kind |-> "results", results |-> [ads |-> <<Property("Ad Hotel", "plain")>>]],
     [kind |-> "results", results |-> [properties |-> <<Property("Hotel A", "null_rate")>>]],
     [kind |-> "results", results |-> [properties |-> <<>>]],
     [kind |-> "results", results |-> [properties |-> <<Property("Hotel A", "plain")>>]],
     [kind |-> "results", results |-> [properties |-> <<Property("Hotel A", "many"),
                                                        Property("Hotel B", "no_name"),
                                                        Property("Hotel C", "plain")>>]],
     [kind |-> "results", results |-> [properties |-> <<Property("Hotel A", "plain"),
                                                        Property("Hotel B", "null_amenities")>>]]}

Activities(n) == [i \in 1..n |-> [activity_name |-> i]]

DestinationFailures == {[kind |-> "ValidationError"], [kind |-> "Exception"], [kind |-> "None"]}

DestinationAnswers ==
    DestinationFailures \cup
    {[kind |-> "ok",
      info |-> [activities |-> Activities(n),
                local_travel_options |-> <<[method |-> "Subway"]>>,
                destination_research |-> <<[title |-> "Weather Outlook"]>>]] :
        n \in 0..MaxActivities}

\* texts of the augmentation call, line by line
LineAddress == <<"A", "d", "d", "r", "e", "s", "s", ":", " ", "1", " ", "M", "a", "i", "n">>

LineDescription ==
    <<"D", "e", "s", "c", "r", "i", "p", "t", "i", "o", "n", ":", " ", "c", "o", "s", "y">>

LinePerks == <<" ", "P", "E", "R", "K", "S", " ", ":", "p", "o", "o", "l", " ">>

LineNoColon == <<"H", "e", "r", "e", " ", "y", "o", "u", " ", "g", "o">>

LineOtherLabel == <<"H", "o", "t", "e", "l", " ", "N", "a", "m", "e", ":", " ", "X">>

LineTwoColons == <<"p", "e", "r", "k", "s", ":", "s", "p", "a", ":", "b", "a", "r">>

AugmentationTexts ==
    {<<LineAddress, LineDescription, LinePerks>>,
     <<LineNoColon, LineAddress, LineOtherLabel>>,
     <<LinePerks, LineTwoColons>>,
     <<>>}

AugmentationAnswers ==
    {[kind |-> "raise"]} \cup {[kind |-> "text", lines |-> t] : t \in AugmentationTexts}

NarrowAugmentationAnswers ==
    {[kind |-> "raise"], [kind |-> "text", lines |-> <<LineAddress, LineDescription, LinePerks>>]}

AssemblyFailures == {[kind |-> "ValidationError"], [kind |-> "Exception"]}

AssemblyAnswers ==
    AssemblyFailures \cup
    {[kind |-> "ok", plan |-> p, echo |-> e] : p \in {"spread", "first_day"}, e \in BOOLEAN}

NarrowAssemblyAnswers ==
    {[kind |-> "ValidationError"], [kind |-> "ok", plan |-> "spread", echo |-> TRUE]}

(***************************************************************************)
(* Two requests in flight (main.py, plan_trip_endpoint is a coroutine: each *)
(* call builds its own initial_state and awaits the workflow on it)        *)
(***************************************************************************)
\* lines 49-56: the state a call of plan_trip_endpoint starts from
Fresh(req, orc) ==
    [pc |-> EntryPoint, started |-> <<>>, returned |-> <<>>, request |-> req,
     user_info |-> req, flight_results |-> None, hotel_results |-> None,
     destination_info_results |-> None, final_itinerary |-> None, notes |-> <<>>,
     outcome |-> [n \in Nodes |-> "not_run"],
     calls |-> [fetch_flights |-> 0, hotel_search |-> 0, searches |-> <<>>, found |-> 0,
                raw_flights |-> 0, search_raised |-> 0,
                extracted |-> None, augmentation |-> <<>>],
     assembly |-> [stage |-> "none"], response |-> [status_code |-> 0], oracle |-> orc]

\* the request that is running now
Current ==
    [pc |-> pc, started |-> started, returned |-> returned, request |-> request,
     user_info |-> user_info, flight_results |-> flight_results,
     hotel_results |-> hotel_results,
     destination_info_results |-> destination_info_results,
     final_itinerary |-> final_itinerary, notes |-> notes, outcome |-> outcome,
     calls |-> calls, assembly |-> assembly, response |-> response, oracle |-> oracle]

Resume(task) ==
    /\ pc' = task.pc
    /\ started' = task.started
    /\ returned' = task.returned
    /\ request' = task.request
    /\ user_info' = task.user_info
    /\ flight_results' = task.flight_results
    /\ hotel_results' = task.hotel_results
    /\ destination_info_results' = task.destination_info_results
    /\ final_itinerary' = task.final_itinerary
    /\ notes' = task.notes
    /\ outcome' = task.outcome
    /\ calls' = task.calls
    /\ assembly' = task.assembly
    /\ response' = task.response
    /\ oracle' = task.oracle

switch_request_sharing_notes ==
    /\ suspended # None
    /\ suspended.pc # "responded"
    /\ Resume([suspended EXCEPT !.notes = notes])
    /\ suspended' = Current

\* line 59: while one call awaits, the event loop runs the other
switch_request ==
    /\ suspended # None
    /\ suspended.pc # "responded"
    /\ Resume(suspended)
    /\ suspended' = Current

\* what the collaborators answer to the calls of one request
Oracles ==
    {[info |-> i, flight |-> [kind |-> "raise"], hotel |-> h,
      destination |-> [kind |-> "ValidationError"],
      augmentation |-> [kind |-> "text", lines |-> <<LineAddress, LineDescription, LinePerks>>],
      assembly |-> a] :
        i \in {[kind |-> "ValidationError"],
               [kind |-> "ok", data |-> Extracted(Jun1, Jun3, PyInt(2))]},
        h \in {[kind |-> "results", results |-> [properties |-> <<Property("Hotel A", "plain")>>]],
               [kind |-> "results",
                results |-> [properties |-> <<Property("Hotel A", "plain"),
                                              Property("Hotel B", "null_amenities")>>]]},
        a \in NarrowAssemblyAnswers}

(***************************************************************************)
(* Specifications                                                          *)
(***************************************************************************)
\* The whole pipeline, from the request to the response
PipelineInit == Init(Requests)

Next ==
    \/ info_extractor_agent_node(ExtractorAnswers)
    \/ flight_agent_node(NarrowFlightAnswers)
    \/ hotel_agent_node(NarrowHotelAnswers)
    \/ destination_agent_node(DestinationAnswers)
    \/ itinerary_agent_node(NarrowAugmentationAnswers, AssemblyAnswers)
    \/ plan_trip_endpoint

Spec == PipelineInit /\ [][Next]_vars

\* The Info Extraction stage on every answer of the extraction
InfoInit == Init(Requests \cup WideFlightRequests)

InfoNext == info_extractor_agent_node(WideExtractorAnswers)

SpecInfo == InfoInit /\ [][InfoNext]_vars

\* The Flight stage on every user_info and every answer of the flight search
FlightInit == Init(Requests \cup WideFlightRequests)

FlightNext ==
    \/ info_extractor_agent_node(ExtractorAnswers)
    \/ flight_agent_node(FlightSearchAnswers(Legs))

SpecFlight == FlightInit /\ [][FlightNext]_vars

\* The Hotel stage on every user_info and every answer of the hotel search
HotelInit == Init(Requests \cup WideHotelRequests \cup BudgetRequests)

HotelNext ==
    \/ info_extractor_agent_node(ExtractorAnswers)
    \/ flight_agent_node({[kind |-> "raise"]})
    \/ hotel_agent_node(NarrowHotelAnswers)

SpecHotel == HotelInit /\ [][HotelNext]_vars

\* Two requests in flight, each with its own collaborator answers
ConcurrentInit ==
    \E r1 \in Requests, r2 \in Requests, o1 \in Oracles, o2 \in Oracles :
       /\ pc = EntryPoint
       /\ started = <<>>
       /\ returned = <<>>
       /\ request = r1
       /\ user_info = r1
       /\ flight_results = None
       /\ hotel_results = None
       /\ destination_info_results = None
       /\ final_itinerary = None
       /\ notes = <<>>
       /\ outcome = [n \in Nodes |-> "not_run"]
       /\ calls = [fetch_flights |-> 0, hotel_search |-> 0, searches |-> <<>>, found |-> 0,
                   raw_flights |-> 0, search_raised |-> 0,
                extracted |-> None, augmentation |-> <<>>]
       /\ assembly = [stage |-> "none"]
       /\ response = [status_code |-> 0]
       /\ oracle = o1
       /\ suspended = Fresh(r2, o2)

ConcurrentNext ==
    \/ info_extractor_agent_node({oracle.info})
    \/ flight_agent_node({oracle.flight})
    \/ hotel_agent_node({oracle.hotel})
    \/ destination_agent_node({oracle.destination})
    \/ itinerary_agent_node({oracle.augmentation}, {oracle.assembly})
    \/ plan_trip_endpoint
    \/ switch_request

SpecConcurrent == ConcurrentInit /\ [][ConcurrentNext]_vars

\* The Itinerary Compiler on every hotel list and every augmentation answer
CompilerInit == Init({FullRequest})

CompilerNext ==
    \/ info_extractor_agent_node({[kind |-> "ok", data |-> Extracted(Jun1, Jun3, PyInt(2))]})
    \/ flight_agent_node({[kind |-> "raise"]})
    \/ hotel_agent_node(HotelSearchAnswers(MaxProperties, PropertyKinds))
    \/ destination_agent_node({[kind |-> "ValidationError"]})
    \/ itinerary_agent_node(AugmentationAnswers, NarrowAssemblyAnswers)
    \/ plan_trip_endpoint

SpecCompiler == CompilerInit /\ [][CompilerNext]_vars

(***************************************************************************)
(* Properties                                                              *)
(***************************************************************************)
StageOrder ==
    <<"info_extractor", "flight_search", "hotel_search", "destination_info",
      "itinerary_compiler">>

RunOver == pc \in {"END", "crashed", "responded"}

\* C1: the stages are entered in the fixed order info_extractor, flight_search,
\* hotel_search, destination_info, itinerary_compiler, each once; a stage is
\* entered only when every stage before it has returned; and when the run is
\* over all five have been entered, whatever the earlier stages' outcomes.
C1_FixedOrder ==
    /\ IsPrefix(started, StageOrder)
    /\ IsPrefix(returned, started)
    /\ pc \in Nodes => /\ returned = started
                       /\ Len(started) < Len(StageOrder)
                       /\ pc = StageOrder[Len(started) + 1]
    /\ pc = "END" => returned = StageOrder
    /\ RunOver => started = StageOrder

\* C1 witness: a run that is over after two degraded stages
C1_Witness ==
    /\ pc = "END"
    /\ returned = StageOrder
    /\ outcome["info_extractor"] = "validation_error"
    /\ outcome["flight_search"] = "missing_parameters"

\* C2: no stage raises: every stage that was entered returned a state update,
\* so the run is never ended by an exception.
C2_NoStageRaises == pc # "crashed" /\ returned = started

\* C3: when the run ends with a final itinerary in the state, the endpoint
\* answers with it; a failed answer is given only when there is none.
C3_ItineraryAlwaysReturned ==
    pc = "responded" =>
        IF final_itinerary # None
        THEN response = [status_code |-> 200, body |-> final_itinerary]
        ELSE response.status_code = 500

\* The calendar, month by month: the first day of the next month, and the
\* number of days from one date to a later one
NextMonth(date) ==
    IF date.m < 12 THEN DateStr(date.y, date.m + 1, 1) ELSE DateStr(date.y + 1, 1, 1)

Earlier(a, b) ==
    \/ a.y < b.y
    \/ a.y = b.y /\ a.m < b.m
    \/ a.y = b.y /\ a.m = b.m /\ a.d < b.d

RECURSIVE DaysFromTo(_, _)
DaysFromTo(a, b) ==
    IF a.y = b.y /\ a.m = b.m THEN b.d - a.d
    ELSE (DaysInMonth(a.y, a.m) - a.d + 1) + DaysFromTo(NextMonth(a), b)

Parses(v) == strptime(v).res = "ok"

\* C4: after a successful extraction with two valid dates, num_days in
\* user_info is the number of days from the departure date to the return
\* date, both counted ((return_date - departure_date).days + 1), whatever day
\* count the model produced.
C4_NumDaysRecomputed ==
    (outcome["info_extractor"] = "extracted"
        /\ Parses(user_info.departure_date) /\ Parses(user_info.return_date))
    => user_info.num_days =
         PyInt(IF Earlier(user_info.return_date, user_info.departure_date)
               THEN 1 - DaysFromTo(user_info.return_date, user_info.departure_date)
               ELSE DaysFromTo(user_info.departure_date, user_info.return_date) + 1)

\* C4 witness: 2024-02-28 to 2025-01-01 is 309 days, a day count the model
\* (at most MaxModelDays) did not produce
C4_Witness ==
    /\ outcome["info_extractor"] = "extracted"
    /\ user_info.departure_date = DateStr(2024, 2, 28)
    /\ user_info.return_date = DateStr(2025, 1, 1)
    /\ user_info.num_days = PyInt(309)

InfoFailureNotes ==
    {InfoNoteValidation, InfoNoteUnexpected(Exc("Exception")),
     InfoNoteUnexpected(Exc("AttributeError")), InfoNoteUnexpected(Exc("TypeError"))}

\* C5: the Info Extraction stage never raises, and when the extraction fails
\* it returns the request as it came and the notes with one note for the
\* failure added.
C5_FailureKeepsInput ==
    /\ pc # "crashed"
    /\ pc # "info_extractor" => returned # <<>> /\ returned[1] = "info_extractor"
    /\ outcome["info_extractor"] \in {"validation_error", "unexpected_error"}
       => /\ user_info = request
          /\ Len(notes) >= 1
          /\ notes[1] \in InfoFailureNotes
          /\ outcome["flight_search"] = "not_run" => Len(notes) = 1

\* C5 witness: the extraction failed for a request without a destination
C5_Witness ==
    /\ outcome["info_extractor"] = "validation_error"
    /\ "destination" \notin DOMAIN request
    /\ request = RawRequest
    /\ user_info = RawRequest
    /\ notes = <<InfoNoteValidation>>

Range(seq) == {seq[i] : i \in 1..Len(seq)}

FlightStageRan == outcome["flight_search"] # "not_run"

FlightFieldsMissing == {f \in Range(FlightRequired) : ~Truthy(Get(user_info, f))}

\* C6: when one of source_iata, destination_iata, departure_date, return_date
\* is absent or empty, the Flight stage does not call the connector, stores
\* an empty flight list, and appends a note naming every missing field.
C6_MissingFlightFields ==
    (FlightStageRan /\ FlightFieldsMissing # {})
    => /\ calls.fetch_flights = 0
       /\ calls.searches = <<>>
       /\ flight_results.flights = <<>>
       /\ notes # <<>>
       /\ notes[Len(notes)] = flight_results.note
       /\ notes[Len(notes)].msg = "Error during Flight Agent processing"
       /\ Range(notes[Len(notes)].about.fields) = FlightFieldsMissing

\* C6 witness: source_iata and return_date are missing, and the note names both
C6_Witness ==
    /\ FlightStageRan
    /\ FlightFieldsMissing = {"source_iata", "return_date"}
    /\ notes[Len(notes)].about.fields = <<"source_iata", "return_date">>

HotelStageRan == outcome["hotel_search"] # "not_run"

LastNote == notes[Len(notes)]

\* the hotel fields user_info does not hold, or holds empty
HotelFieldsUnset == {f \in Range(HotelRequired) : ~Truthy(Get(user_info, f))}

\* the same, an adult count that is not there at all left out
HotelFieldsEmpty ==
    {f \in HotelFieldsUnset : f = "no_of_adults" => "no_of_adults" \in DOMAIN user_info}

HotelSearchRefused ==
    /\ calls.hotel_search = 0
    /\ hotel_results.hotels = <<>>
    /\ notes # <<>>
    /\ LastNote = hotel_results.note
    /\ LastNote.msg = "Hotel search failed"
    /\ Range(LastNote.about.fields) = HotelFieldsUnset

\* C7 as stated: when any of hotel city, departure date, return date, adult
\* count is missing, an adult count that is not there at all included, the
\* Hotel stage does not call the connector, stores an empty hotel list and
\* appends a note naming every missing field.
C7_MissingHotelFields_Stated ==
    (HotelStageRan /\ HotelFieldsUnset # {}) => HotelSearchRefused

\* C7 amended: when hotel city, departure date or return date is absent or
\* empty, or the adult count is there but null or zero, the Hotel stage does
\* not call the connector, stores an empty hotel list and appends a note
\* naming every absent or empty field; a user_info without any adult count
\* whose other three fields are set is searched once, for one adult.
C7_MissingHotelFields ==
    HotelStageRan =>
       /\ HotelFieldsEmpty # {} => HotelSearchRefused
       /\ HotelFieldsEmpty = {} =>
             /\ calls.hotel_search = 1
             /\ "no_of_adults" \notin DOMAIN user_info => calls.searches[1].adults = PyInt(1)

\* C7 witness: no hotel city and a zero adult count, and the note names both
C7_Witness ==
    /\ HotelStageRan
    /\ "hotel_city" \notin DOMAIN user_info
    /\ Get(user_info, "no_of_adults") = PyInt(0)
    /\ Truthy(Get(user_info, "departure_date")) /\ Truthy(Get(user_info, "return_date"))
    /\ calls.hotel_search = 0
    /\ LastNote.about.fields = <<"hotel_city", "no_of_adults">>

\* the adult count is not there at all and the search goes out for one adult
C7_WitnessDefaultAdult ==
    /\ HotelStageRan
    /\ "no_of_adults" \notin DOMAIN user_info
    /\ calls.hotel_search = 1
    /\ calls.searches[1].adults = PyInt(1)

StoredHotels ==
    IF hotel_results = None THEN <<>> ELSE GetDefault(hotel_results, "hotels", <<>>)

\* C8: whatever number of properties or ads the external search returned, the
\* hotel list stored in hotel_results holds at most 2 entries, and they are
\* the first two of the response, in its order.
C8_AtMostTwoHotels ==
    /\ Len(StoredHotels) <= 2
    /\ outcome["hotel_search"] = "found" =>
          /\ Len(StoredHotels) = IF calls.found < 2 THEN calls.found ELSE 2
          /\ \A i \in 1..Len(StoredHotels) :
                StoredHotels[i].hotel_name \in {None, PyStr(HotelNames[i]), PyStr("Ad Hotel")}

\* C8 witness: the search returned three properties and two are stored
C8_Witness ==
    /\ outcome["hotel_search"] = "found"
    /\ calls.found = 3
    /\ Len(StoredHotels) = 2
    /\ StoredHotels[1].hotel_name = PyStr("Hotel A")
    /\ StoredHotels[2].hotel_name = PyStr("Hotel B")

AssemblyInvoked == assembly.stage = "invoked"

AmenitiesCount(hotel) ==
    IF "amenities" \notin DOMAIN hotel \/ hotel.amenities = None THEN 0
    ELSE IF DOMAIN hotel.amenities = {"list"} THEN Len(hotel.amenities.list)
    ELSE Len(hotel.amenities)

AtMostFiveAmenities(hotels) == \A i \in 1..Len(hotels) : AmenitiesCount(hotels[i]) <= 5

DocumentHotels ==
    IF final_itinerary # None /\ "hotels" \in DOMAIN final_itinerary
    THEN final_itinerary.hotels ELSE <<>>

\* C9 as stated: the amenities list of every hotel record holds at most 5
\* entries, in hotel_results, in the records built for augmentation and in
\* the final document.
C9_AtMostFiveAmenities_Stated ==
    /\ AtMostFiveAmenities(StoredHotels)
    /\ AssemblyInvoked => AtMostFiveAmenities(assembly.prepared)
    /\ AtMostFiveAmenities(DocumentHotels)

\* C9 amended: the records the Itinerary Compiler builds for augmentation,
\* the augmented records passed to assembly and the hotels of the final
\* document hold at most 5 amenities each, the first five of the stored ones;
\* the records in hotel_results keep every amenity the search returned.
C9_AtMostFiveAmenities ==
    /\ AssemblyInvoked =>
          /\ AtMostFiveAmenities(assembly.prepared)
          /\ AtMostFiveAmenities(assembly.hotels)
          /\ \A i \in 1..Len(assembly.prepared) :
                /\ assembly.hotels[i].amenities = assembly.prepared[i].amenities
                /\ \E j \in 1..Len(StoredHotels) :
                      LET stored == StoredHotels[j].amenities.list
                          built == assembly.prepared[i].amenities
                      IN  /\ StoredHotels[j].hotel_name = assembly.prepared[i].hotel_name
                          /\ Len(built) = (IF Len(stored) < 5 THEN Len(stored) ELSE 5)
                          /\ \A k \in 1..Len(built) : built[k] = stored[k]
    /\ AtMostFiveAmenities(DocumentHotels)

\* C9 witness: a stored hotel with more than five amenities whose record in
\* the final document holds five
C9_Witness ==
    /\ AssemblyInvoked
    /\ Len(StoredHotels) >= 1
    /\ AmenitiesCount(StoredHotels[1]) > 5
    /\ Len(assembly.prepared[1].amenities) = 5
    /\ Len(DocumentHotels) >= 1
    /\ Len(DocumentHotels[1].amenities) = 5

\* a stored candidate of which the typed record can be built: its name is a
\* string and it has a price
Typed(hotel) ==
    /\ hotel.hotel_name # None
    /\ hotel.price_per_night # None

Unaugmented(hotel) ==
    /\ hotel.address = Text(<<>>)
    /\ hotel.description = Text(<<>>)
    /\ hotel.perks = Text(<<>>)

DestinationFailed == outcome["destination_info"] = "failed"

CompilerRan == outcome["itinerary_compiler"] # "not_run"

\* C11: when destination info generation fails, destination_info_results is
\* the absent value and a note is recorded, and the Itinerary Compiler that
\* follows produces a final_itinerary document rather than raising.
C11_DestinationFailureStillCompiles ==
    DestinationFailed =>
       /\ destination_info_results = None
       /\ \E n \in 1..Len(notes) :
             notes[n].msg \in
                {"Failed to generate structured destination information due to Pydantic validation",
                 "An unexpected error occurred during Destination Agent processing"}
       /\ CompilerRan => (pc # "crashed" /\ final_itinerary # None)

AssemblyFailed == outcome["itinerary_compiler"] = "assembly_failed"

AssemblyErrorNotes ==
    {Note("ValidationError during structured itinerary compilation"),
     NoteAbout("An unexpected error occurred during structured itinerary compilation",
               Exc("Exception"))}

\* C12: when the structured itinerary assembly call fails, the Itinerary
\* Compiler returns a final document that holds only the accumulated notes
\* (those of the earlier stages and of the compiler, then the assembly error)
\* and a disclaimer marking the itinerary partial: no flights, no hotels, no
\* itinerary days.
C12_AssemblyFailureDegrades ==
    AssemblyFailed =>
       /\ pc # "crashed"
       /\ final_itinerary # None
       /\ DOMAIN final_itinerary = {"notes_and_warnings", "disclaimer"}
       /\ final_itinerary.disclaimer = PyStr("Partial itinerary due to internal error.")
       /\ final_itinerary.notes_and_warnings = notes
       /\ Len(notes) = Len(assembly.notes) + 1
       /\ IsPrefix(assembly.notes, notes)
       /\ notes[Len(notes)] \in AssemblyErrorNotes

\* C12 witness: the assembly failed after a failed extraction and two
\* refused searches, and the degraded document holds their notes
C12_Witness ==
    /\ AssemblyFailed
    /\ outcome["info_extractor"] = "validation_error"
    /\ outcome["flight_search"] = "missing_parameters"
    /\ outcome["hotel_search"] = "missing_parameters"
    /\ Len(final_itinerary.notes_and_warnings) >= 4
    /\ final_itinerary.notes_and_warnings[1] = InfoNoteValidation
    /\ "flight" \notin DOMAIN final_itinerary

FinalValidationFailed == outcome["itinerary_compiler"] = "final_validation_failed"

AssembledParts == {"flight", "hotels", "itinerary", "travel_options", "note", "notes_and_warnings"}

HasDisclaimer ==
    /\ final_itinerary # None
    /\ "disclaimer" \in DOMAIN final_itinerary
    /\ final_itinerary.disclaimer # None

\* C13: when the assembled document with the trip-parameter snapshot fails
\* the final validation, the Itinerary Compiler returns the assembled data
\* with the validation error appended to the document's notes and a
\* disclaimer set; a final document has a disclaimer only after an assembly
\* failure or a final validation failure.
C13_FinalValidationFailureUnwrapped ==
    /\ FinalValidationFailed =>
          /\ pc # "crashed"
          /\ final_itinerary # None
          /\ AssembledParts \subseteq DOMAIN final_itinerary
          /\ final_itinerary.user_request_summary = user_info
          /\ final_itinerary.hotels \in {<<>>, assembly.hotels}
          /\ final_itinerary.notes_and_warnings # <<>>
          /\ final_itinerary.notes_and_warnings[Len(final_itinerary.notes_and_warnings)] =
                Note("Validation failed for final itinerary")
          /\ HasDisclaimer
          /\ final_itinerary.disclaimer =
                PyStr("Partial itinerary generated due to final validation error.")
    /\ final_itinerary # None =>
          (HasDisclaimer <=> (AssemblyFailed \/ FinalValidationFailed))

\* C13 witness: the final validation failed and the unwrapped document holds
\* the hotel that was found
C13_Witness ==
    /\ FinalValidationFailed
    /\ HasDisclaimer
    /\ Len(final_itinerary.hotels) >= 1
    /\ final_itinerary.hotels = assembly.hotels

\* a compiled document has no disclaimer
C13_WitnessCompiled ==
    /\ outcome["itinerary_compiler"] = "compiled"
    /\ final_itinerary # None
    /\ ~HasDisclaimer

NoFlightsFound ==
    /\ outcome["flight_search"] = "empty"
    /\ flight_results.note = Note("No flight options found.")

NoHotelsFound ==
    /\ outcome["hotel_search"] = "empty"
    /\ hotel_results.note = Note("No hotel options found.")

Holds(seq, x) == \E n \in 1..Len(seq) : seq[n] = x

\* C14: when the flight search returned zero flights and the hotel search
\* zero hotels, the final document has an empty flight list, an empty hotel
\* list, and notes that contain both "No flight options found" and "No hotel
\* options found".
C14_NothingFoundDocument ==
    (NoFlightsFound /\ NoHotelsFound /\ final_itinerary # None) =>
       /\ "flight" \in DOMAIN final_itinerary => final_itinerary.flight = <<>>
       /\ "hotels" \in DOMAIN final_itinerary => final_itinerary.hotels = <<>>
       /\ Holds(final_itinerary.notes_and_warnings, Note("No flight options found."))
       /\ Holds(final_itinerary.notes_and_warnings, Note("No hotel options found."))

ActivitiesReturned ==
    IF destination_info_results = None THEN <<>> ELSE destination_info_results.activities

Compiled == outcome["itinerary_compiler"] = "compiled"

\* C15: for a trip of N days with at least one activity from the Destination
\* stage (here at least N, so that every day can have one), the itinerary of
\* a non-degraded final document has exactly N days numbered 1..N, every day
\* has at least one activity, and the activities are not all on one day.
C15_ActivitiesOnEveryDay ==
    (Compiled /\ Len(ActivitiesReturned) >= 1
        /\ Len(ActivitiesReturned) >= user_info.num_days.i) =>
       LET N == user_info.num_days.i
           days == final_itinerary.itinerary
       IN  /\ Len(days) = N
           /\ \A d \in 1..Len(days) : days[d].day = d /\ days[d].activities # <<>>
           /\ N > 1 => ~\E d \in 1..Len(days) :
                           Len(days[d].activities) = Len(ActivitiesReturned)

\* C16: user_info is changed by the Info Extraction stage only: no step of
\* the Flight, Hotel, Destination and Itinerary Compiler stages, on a success
\* or on a failure path, and no step of the endpoint after them, changes it.
C16_UserInfoReadOnly == [][pc # "info_extractor" => user_info' = user_info]_vars

\* C16 witness: a run in which the extraction changed user_info, the flight
\* stage failed, the hotel stage found hotels, the destination stage failed
\* and the compiler returned a document holding the trip parameters
C16_Witness ==
    /\ pc = "END"
    /\ user_info # request
    /\ outcome["flight_search"] \in {"tool_raised", "empty"}
    /\ outcome["hotel_search"] = "found"
    /\ DestinationFailed
    /\ Compiled
    /\ final_itinerary.user_request_summary = user_info

\* no step removes, replaces or reorders a note
NotesAppendOnly == [][IsPrefix(notes, notes')]_vars

DocumentHoldsNotes ==
    final_itinerary # None =>
       \A n \in 1..Len(notes) : Holds(final_itinerary.notes_and_warnings, notes[n])

\* C17: the notes list is append-only and ordered (after every stage the
\* notes from before the stage are a prefix of the notes), and the notes of
\* the final document contain every note accumulated in the state.
C17_NotesAppendOnlyAndSurfaced == NotesAppendOnly /\ []DocumentHoldsNotes

FlightStageStep == pc = "flight_search" /\ pc' # "flight_search"

\* C19: in the Flight stage an entry of the connector output is dropped only
\* when its typed construction fails, and one note is appended for each
\* dropped entry: the notes the stage adds for dropped entries are as many as
\* the entries the connector returned minus the flights stored.
C19_NotePerDroppedFlight ==
    [][(FlightStageStep /\ outcome'["flight_search"] \in {"found", "dropped"}) =>
          /\ IsPrefix(notes, notes')
          /\ Len(notes') - Len(notes) =
                calls'.raw_flights - Len(flight_results'.flights)]_vars

\* C20: whenever the flight list the Flight stage stores is empty, the stage
\* has appended at least one note to the diagnostic notes.
C20_EmptyFlightListHasNote ==
    [][(FlightStageStep /\ flight_results'.flights = <<>>) =>
          /\ IsPrefix(notes, notes')
          /\ Len(notes') > Len(notes)]_vars

\* What the stages of one request return when it runs alone and the
\* collaborators give it the answers of orc
Alone(req, orc) ==
    LET i == info_extractor_result(req, <<>>, orc.info)
        f == flight_agent_result(i.user_info, i.notes, orc.flight)
        h == hotel_agent_result(i.user_info, f.notes, orc.hotel)
        d == destination_agent_result(h.notes, orc.destination)
        n == Len(prepare_hotels(h.hotel_results.hotels).hotel_updated)
        c == itinerary_agent_result(i.user_info, f.flight_results, h.hotel_results,
                                    d.destination_info_results, d.notes,
                                    [k \in 1..n |-> orc.augmentation], orc.assembly)
    IN  [info |-> i, flight |-> f, hotel |-> h, destination |-> d, compiler |-> c]

\* the state of a request is the one its run alone has after as many stages
AsAlone(task) ==
    LET a == Alone(task.request, task.oracle)
        k == Len(task.started)
        document == IF k = 5 /\ ~a.compiler.raised THEN a.compiler.update.final_itinerary
                    ELSE None
    IN  /\ task.user_info = (IF k >= 1 THEN a.info.user_info ELSE task.request)
        /\ task.flight_results = (IF k >= 2 THEN a.flight.flight_results ELSE None)
        /\ task.hotel_results = (IF k >= 3 THEN a.hotel.hotel_results ELSE None)
        /\ task.destination_info_results =
              (IF k >= 4 THEN a.destination.destination_info_results ELSE None)
        /\ task.notes = (CASE k = 0 -> <<>>
                           [] k = 1 -> a.info.notes
                           [] k = 2 -> a.flight.notes
                           [] k = 3 -> a.hotel.notes
                           [] k = 4 -> a.destination.notes
                           [] k = 5 -> a.compiler.notes)
        /\ task.final_itinerary = document
        /\ task.pc = "responded" =>
              task.response = plan_trip_response(IF a.compiler.raised THEN "crashed" ELSE "END",
                                                 document)

HotelStageStep == pc = "hotel_search" /\ pc' # "hotel_search"

\* the external search of this step raised
SearchRaised == calls'.search_raised = calls.search_raised + 1

\* the connector was called once, and it issued one external search
CalledOnce(connector) ==
    /\ calls'[connector] = calls[connector] + 1
    /\ Len(calls'.searches) = Len(calls.searches) + 1

\* C21: the connectors do not retry and do not raise: with all required
\* fields present each stage calls its connector exactly once, the connector
\* issues exactly one external search, no exception leaves the connector,
\* and an exception of the search gives an empty list with a note that
\* describes the error.
C21_ConnectorsNeverRaise ==
    [][/\ (FlightStageStep /\ flight_parameters_present(user_info)) =>
             /\ CalledOnce("fetch_flights")
             /\ outcome'["flight_search"] # "tool_raised"
             /\ SearchRaised =>
                   /\ flight_results' = [flights |-> <<>>, note |-> FlightNoteError]
                   /\ notes' = Append(notes, FlightNoteError)
       /\ (HotelStageStep /\ hotel_parameters_present(user_info)) =>
             /\ CalledOnce("hotel_search")
             /\ outcome'["hotel_search"] # "tool_raised"
             /\ SearchRaised =>
                   /\ hotel_results'.hotels = <<>>
                   /\ hotel_results'.note = HotelNoteError
                   /\ notes' = Append(notes, HotelNoteError)]_vars

\* C21 as the code has it: with all required fields present each stage
\* calls its connector exactly once and the connector issues exactly one
\* external search; an exception of the search itself gives an empty list
\* with the connector's note describing the error; an exception raised while
\* the connector reads a malformed reply leaves the connector and is caught
\* by the stage, which stores an empty list with its own error note.  In no
\* case does the stage raise.
C21_SearchFailureConverted ==
    [][/\ (FlightStageStep /\ flight_parameters_present(user_info)) =>
             /\ CalledOnce("fetch_flights")
             /\ pc' = next_node("flight_search")
             /\ SearchRaised =>
                   /\ flight_results' = [flights |-> <<>>, note |-> FlightNoteError]
                   /\ notes' = Append(notes, FlightNoteError)
             /\ outcome'["flight_search"] = "tool_raised" =>
                   /\ ~SearchRaised
                   /\ flight_results'.flights = <<>>
                   /\ notes' = Append(notes, flight_results'.note)
       /\ (HotelStageStep /\ hotel_parameters_present(user_info)) =>
             /\ CalledOnce("hotel_search")
             /\ pc' = next_node("hotel_search")
             /\ SearchRaised =>
                   /\ hotel_results'.hotels = <<>>
                   /\ hotel_results'.note = HotelNoteError
                   /\ notes' = Append(notes, HotelNoteError)
             /\ outcome'["hotel_search"] = "tool_raised" =>
                   /\ ~SearchRaised
                   /\ hotel_results'.hotels = <<>>
                   /\ notes' = Append(notes, hotel_results'.note)]_vars

\* C21 witness: both external searches raised, each connector was called
\* once, and both result lists are empty with the connectors' error notes
C21_Witness ==
    /\ calls.fetch_flights = 1
    /\ calls.hotel_search = 1
    /\ calls.search_raised = 2
    /\ Len(calls.searches) = 2
    /\ flight_results = [flights |-> <<>>, note |-> FlightNoteError]
    /\ hotel_results # None
    /\ hotel_results.note = HotelNoteError
    /\ notes[Len(notes)] = HotelNoteError

InfoStageRan == outcome["info_extractor"] # "not_run"

\* the extraction returned a record, and one of its dates does not parse
DateUnparsed ==
    /\ calls.extracted # None
    /\ ~Parses(calls.extracted.departure_date) \/ ~Parses(calls.extracted.return_date)

\* C22: when the extraction succeeded and parsing either date fails, for
\* every unparseable value and for a null date too, the Info Extraction stage
\* does not abort: it keeps the model's day count, records the note about
\* the dates, and returns the input with all extracted fields merged in.
C22_UnparsedDatesStillMerge ==
    (InfoStageRan /\ DateUnparsed) =>
        /\ pc # "crashed"
        /\ user_info = Update(request, calls.extracted)
        /\ user_info.num_days = calls.extracted.num_days
        /\ notes = <<InfoNoteDates, InfoNoteOk>>

InfoStageStep == pc = "info_extractor" /\ pc' # "info_extractor"

ExtractionMerged == outcome'["info_extractor"] \in {"extracted", "extracted_dates_unparsed"}

\* the day count of the extracted record when the stage merges it: the one
\* recomputed from the dates when both parse, else the one the model gave
DayCountAtMerge(extracted_data) ==
    IF Parses(extracted_data.departure_date) /\ Parses(extracted_data.return_date)
    THEN PyInt(IF Earlier(extracted_data.return_date, extracted_data.departure_date)
               THEN 1 - DaysFromTo(extracted_data.return_date, extracted_data.departure_date)
               ELSE DaysFromTo(extracted_data.departure_date, extracted_data.return_date) + 1)
    ELSE extracted_data.num_days

\* C23: on success the Info Extraction stage merges the extracted record
\* into the input map and does not replace it: every key of the input that
\* is no field of the record keeps its value, every field of the record is
\* in the output with the value the record has when it is merged, and the
\* input map of the incoming state is not modified.
C23_MergeKeepsInput ==
    [][(InfoStageStep /\ ExtractionMerged) =>
          /\ DOMAIN user_info' = DOMAIN user_info \cup DOMAIN calls'.extracted
          /\ \A k \in DOMAIN user_info \ DOMAIN calls'.extracted : user_info'[k] = user_info[k]
          /\ \A k \in DOMAIN calls'.extracted \ {"num_days"} :
                user_info'[k] = calls'.extracted[k]
          /\ user_info'.num_days = DayCountAtMerge(calls'.extracted)
          /\ request' = request]_vars

\* C23 witness: the request in the user's words keeps its source and has the
\* extracted codes beside it
C23_Witness ==
    /\ outcome["info_extractor"] = "extracted"
    /\ request = RawRequest
    /\ user_info.source = PyStr("USA")
    /\ user_info.source_iata = PyStr("JFK")
    /\ user_info.departure_date = DateStr(2024, 2, 28)
    /\ request.departure_date = Jun1
    /\ DOMAIN user_info = DOMAIN RawRequest \cup ExtractedFields

HotelNamesOf(hotels) == [i \in 1..Len(hotels) |-> hotels[i].hotel_name]

\* the notes about augmentation calls that raised
AugmentationFailureNotes ==
    SelectSeq(notes, LAMBDA n : \E i \in 1..Len(assembly.prepared) :
                                   n = AugmentationNote(assembly.prepared[i]))

RaisedCount == Cardinality({i \in 1..Len(assembly.raised) : assembly.raised[i]})

\* every hotel whose call did not raise holds what the text of its call gave
AugmentedDespiteFailures ==
    \A i \in 1..Len(assembly.hotels) :
       IF assembly.raised[i] THEN assembly.hotels[i] = assembly.prepared[i]
       ELSE assembly.hotels[i] = apply_augmentation(assembly.prepared[i], assembly.texts[i])

PreparationRaises == \E i \in 1..Len(StoredHotels) : StoredHotels[i].amenities = None

FirstColonAt(line, p) ==
    /\ p \in 1..Len(line)
    /\ line[p] = ":"
    /\ \A q \in 1..(p - 1) : line[q] # ":"

\* chars without the spaces at its ends
Trimmed(chars) ==
    LET inked == {i \in 1..Len(chars) : chars[i] # " "}
    IN  IF inked = {} THEN <<>>
        ELSE SubSeq(chars, CHOOSE i \in inked : \A j \in inked : i <= j,
                           CHOOSE i \in inked : \A j \in inked : j <= i)

\* the label of the line is key once trimmed, lower-cased and underscored
Labelled(line, key) ==
    \E p \in 1..Len(line) :
       /\ FirstColonAt(line, p)
       /\ LET label == Trimmed(SubSeq(line, 1, p - 1))
          IN  /\ Len(label) = Len(key)
              /\ \A i \in 1..Len(key) :
                    key[i] = (IF label[i] = " " THEN "_" ELSE LowerChar(label[i]))

ValueOf(line) ==
    LET p == CHOOSE q \in 1..Len(line) : FirstColonAt(line, q)
    IN  Trimmed(SubSeq(line, p + 1, Len(line)))

\* the field of the hotel after the text: the trimmed value of the last line
\* labelled key, the prior value when no line is
ParsedField(lines, key, prior) ==
    LET matching == {i \in 1..Len(lines) : Labelled(lines[i], key)}
    IN  IF matching = {} THEN prior
        ELSE Text(ValueOf(lines[CHOOSE i \in matching : \A j \in matching : j <= i]))

\* C25: the augmentation text is split into lines and each line at its first
\* colon; the label is trimmed, lower-cased and its spaces underscored, and
\* a line without a colon is ignored.  Afterwards each of address,
\* description and perks is the trimmed value of the line with that label
\* (the last one when there are several), or its prior value when there is
\* none, and no other field of the hotel is changed.
C25_AugmentationTextParsed ==
    AssemblyInvoked =>
       \A i \in 1..Len(assembly.hotels) :
          ~assembly.raised[i] =>
             LET before == assembly.prepared[i]
                 after == assembly.hotels[i]
                 lines == assembly.texts[i]
             IN  /\ after.address = ParsedField(lines, KeyAddress, before.address)
                 /\ after.description = ParsedField(lines, KeyDescription, before.description)
                 /\ after.perks = ParsedField(lines, KeyPerks, before.perks)
                 /\ DOMAIN after = DOMAIN before
                 /\ \A f \in DOMAIN before \ {"address", "description", "perks"} :
                       after[f] = before[f]

\* C25 witness: a text with a line without a colon, an address and a label
\* that is no field; the address is set, description and perks are as before
C25_Witness ==
    /\ AssemblyInvoked
    /\ Len(assembly.hotels) >= 1
    /\ ~assembly.raised[1]
    /\ assembly.texts[1] = <<LineNoColon, LineAddress, LineOtherLabel>>
    /\ assembly.hotels[1].address = Text(<<"1", " ", "M", "a", "i", "n">>)
    /\ assembly.hotels[1].description = Text(<<>>)
    /\ assembly.hotels[1].hotel_name = assembly.prepared[1].hotel_name

\* two lines with the label perks, the second with two colons: the value is
\* what follows the first colon of the last line
C25_WitnessTwoColons ==
    /\ AssemblyInvoked
    /\ Len(assembly.hotels) >= 1
    /\ ~assembly.raised[1]
    /\ assembly.texts[1] = <<LinePerks, LineTwoColons>>
    /\ assembly.hotels[1].perks = Text(<<"s", "p", "a", ":", "b", "a", "r">>)

\* the external hotel requests of the run
HotelRequestsSent == SelectSeq(calls.searches, LAMBDA q : q.engine = "google_hotels")

BudgetTier == Get(user_info, "budget")

\* the budget tier is one of the spellings of the tiers
Spelled(spellings) == IsStr(BudgetTier) /\ BudgetTier.s \in spellings

Economy == {"economy", "Economy", "ECONOMY"}

Standard == {"standard", "Standard", "STANDARD"}

Luxury == {"luxury", "Luxury", "LUXURY"}

PriceBand(sent, low, high) ==
    /\ {"min_price", "max_price"} \subseteq DOMAIN sent
    /\ sent.min_price = low
    /\ sent.max_price = high

\* C26: hotel_search maps the budget tier to the price band of the external
\* request, whatever the case of its letters: economy 50 to 175, standard
\* 176 to 300, luxury 301 to 10000; with no tier or any other tier value no
\* price bound is set and the search is made all the same, without an error.
C26_BudgetPriceBand ==
    (HotelStageRan /\ hotel_parameters_present(user_info)) =>
        /\ calls.hotel_search = 1
        /\ Len(HotelRequestsSent) = 1
        /\ outcome["hotel_search"] # "missing_parameters"
        /\ LET sent == HotelRequestsSent[1]
           IN  CASE Spelled(Economy) -> PriceBand(sent, 50, 175)
                 [] Spelled(Standard) -> PriceBand(sent, 176, 300)
                 [] Spelled(Luxury) -> PriceBand(sent, 301, 10000)
                 [] OTHER -> /\ "min_price" \notin DOMAIN sent
                             /\ "max_price" \notin DOMAIN sent
                             /\ sent.q = user_info.hotel_city

\* C26 witness: STANDARD in capitals gives the band 176 to 300
C26_Witness ==
    /\ HotelStageRan
    /\ BudgetTier = PyStr("STANDARD")
    /\ Len(HotelRequestsSent) = 1
    /\ PriceBand(HotelRequestsSent[1], 176, 300)

\* an unknown tier: the search is made without bounds and finds its hotel
C26_WitnessUnknownTier ==
    /\ outcome["hotel_search"] = "found"
    /\ BudgetTier = PyStr("deluxe")
    /\ Len(HotelRequestsSent) = 1
    /\ "min_price" \notin DOMAIN HotelRequestsSent[1]

\* no tier at all
C26_WitnessNoTier ==
    /\ outcome["hotel_search"] = "found"
    /\ BudgetTier = None
    /\ Len(HotelRequestsSent) = 1
    /\ "min_price" \notin DOMAIN HotelRequestsSent[1]

DestinationStageStep == pc = "destination_info" /\ pc' # "destination_info"

DestinationFailureNotes ==
    {DestinationNoteValidation, DestinationNoteUnexpected(Exc("Exception")),
     DestinationNoteUnexpected(Exc("AttributeError"))}

\* C27: a failure of the Destination Stage adds exactly one note: after the
\* failure path the notes of the state are the notes from before the stage
\* followed by a single occurrence of the error message.
C27_DestinationFailureOneNote ==
    [][(DestinationStageStep /\ outcome'["destination_info"] = "failed") =>
          \E msg \in DestinationFailureNotes : notes' = Append(notes, msg)]_vars

IsList(v) == DOMAIN v = 1..Len(v)

\* C28: in every state after the Flight Stage flight_results is a record
\* with a flight list and a non-empty note, and in every state after the
\* Hotel Stage hotel_results is a record with a hotel list; neither is the
\* absent value of the start, so the Destination Stage and the Itinerary
\* Compiler never read a field of an absent result.
C28_ResultsNeverAbsent ==
    /\ FlightStageRan =>
          /\ flight_results # None
          /\ DOMAIN flight_results = {"flights", "note"}
          /\ IsList(flight_results.flights)
          /\ flight_results.note # None
          /\ flight_results.note # PyStr("")
    /\ HotelStageRan =>
          /\ hotel_results # None
          /\ "hotels" \in DOMAIN hotel_results
          /\ IsList(hotel_results.hotels)
    /\ pc \in {"destination_info", "itinerary_compiler"} => (FlightStageRan /\ HotelStageRan)
    /\ outcome["destination_info"] # "crashed"

\* C28 witness: the Itinerary Compiler is about to run on a flight and a
\* hotel that were found
C28_Witness ==
    /\ pc = "itinerary_compiler"
    /\ outcome["destination_info"] = "generated"
    /\ flight_results # None
    /\ Len(flight_results.flights) >= 1
    /\ flight_results.note = Note("Flight search completed.")
    /\ hotel_results # None
    /\ Len(hotel_results.hotels) >= 1

\* and on the results of two stages that failed
C28_WitnessFailures ==
    /\ pc = "itinerary_compiler"
    /\ outcome["flight_search"] = "missing_parameters"
    /\ outcome["hotel_search"] = "missing_parameters"
    /\ flight_results.flights = <<>>
    /\ hotel_results.hotels = <<>>

====
